---- MODULE Spec2Model ----
(***************************************************************************)
(* A model of scripts/update.py: the per-platform extraction and           *)
(* change-detection pipeline of the e-book promotions snapshot.            *)
(*                                                                         *)
(* Text is a sequence of characters; a character is a one-character string *)
(* and a non-ASCII character of the source is the token "uXXXX" of its     *)
(* code point (the comment above a text shows it as the source writes it). *)
(***************************************************************************)
EXTENDS Naturals, Integers, Sequences, FiniteSets, TLC

VARIABLES
    file,               \* data/deals.json: "missing", "corrupt" or a snapshot
    pc,                 \* where main() is: "idle", "loop", "crashed"
    idx,                \* position of the for loop in URLS (1..6)
    prev_ver,           \* main(): prev["parser_version"]
    prev_sig,           \* main(): prev["sig"]
    items,              \* main(): items
    changed_platforms,  \* main(): changed_platforms
    html,               \* main(): the local html, "unbound" until first assigned
    web,                \* what each platform's server may answer
    runsLeft,           \* invocations of main() still to come
    fetched,            \* history: the fetch outcomes of the current run
    lastRun,            \* history: fetch outcomes and result of the last completed run
    call                \* the function harness: the last pure call and its result

vars == <<file, pc, idx, prev_ver, prev_sig, items, changed_platforms, html,
          web, runsLeft, fetched, lastRun, call>>

(***************************************************************************)
(* Characters and text helpers                                             *)
(***************************************************************************)
WS == {" ", "\t", "\n"}
Digit == {"0", "1", "2", "3", "4", "5", "6", "7", "8", "9"}

Min(a, b) == IF a < b THEN a ELSE b

\* seq[:n] for n >= 0
Take(s, n) == SubSeq(s, 1, Min(n, Len(s)))

\* sub in t
Contains(t, sub) ==
    \E i \in 0..(Len(t) - Len(sub)) : SubSeq(t, i + 1, i + Len(sub)) = sub

ContainsAny(t, subs) == \E s \in subs : Contains(t, s)

\* str.strip()
Strip(t) ==
    LET keep == {i \in 1..Len(t) : t[i] \notin WS}
    IN  IF keep = {} THEN <<>>
        ELSE LET lo == CHOOSE i \in keep : \A j \in keep : i <= j
                 hi == CHOOSE i \in keep : \A j \in keep : i >= j
             IN  SubSeq(t, lo, hi)

\* re.sub(r"\s+", " ", t)
CollapseWs(t) ==
    LET F[i \in 0..Len(t)] ==
            IF i = 0 THEN <<>>
            ELSE IF t[i] \in WS
                 THEN IF i > 1 /\ t[i - 1] \in WS THEN F[i - 1]
                      ELSE Append(F[i - 1], " ")
                 ELSE Append(F[i - 1], t[i])
    IN  F[Len(t)]

\* re.sub(r"\s+", " ", t).strip()
Normalize(t) == Strip(CollapseWs(t))

Range(s) == {s[i] : i \in 1..Len(s)}

RECURSIVE Perms(_)
\* every ordering of a finite set
Perms(S) ==
    IF S = {} THEN {<<>>}
    ELSE UNION {{<<x>> \o p : p \in Perms(S \ {x})} : x \in S}

(***************************************************************************)
(* pick_unique_texts                                                       *)
(***************************************************************************)
MinTextLen == 4

\* step 1: the normalized texts of length >= 4, in input order
Cleaned(texts) ==
    SelectSeq([i \in 1..Len(texts) |-> Normalize(texts[i])],
              LAMBDA t : Len(t) >= MinTextLen)

RECURSIVE LengthDescOrders(_)
\* step 2: sorted(set(cleaned), key=len, reverse=True).  The sort is stable
\* over the iteration order of a set of strings, which differs from one
\* process to the next (string hashing is randomized): texts of equal length
\* come out in any order.
LengthDescOrders(S) ==
    IF S = {} THEN {<<>>}
    ELSE LET m   == CHOOSE n \in {Len(t) : t \in S} : \A t \in S : Len(t) <= n
             top == {t \in S : Len(t) = m}
         IN  {p \o r : p \in Perms(top), r \in LengthDescOrders(S \ top)}

\* a keep-list that drops nothing
KeepEverything(kept, rest) == kept \o rest

RECURSIVE KeepFrom(_, _)
\* the keep-list after the texts of rest, given the texts kept so far
KeepFrom(kept, rest) ==
    IF rest = <<>> THEN kept
    ELSE IF \E k \in 1..Len(kept) : Contains(kept[k], Head(rest))
         THEN KeepFrom(kept, Tail(rest))
         ELSE KeepFrom(Append(kept, Head(rest)), Tail(rest))

\* step 3: drop a text contained in a text already kept
Kept(order) == KeepFrom(<<>>, order)

\* the selection without the cut at limit
pick_unique_texts_uncapped(texts, limit) ==
    {Kept(o) : o \in LengthDescOrders(Range(Cleaned(texts)))}

\* the lists pick_unique_texts(texts, limit) can return
pick_unique_texts(texts, limit) ==
    {Take(Kept(o), limit) : o \in LengthDescOrders(Range(Cleaned(texts)))}

(***************************************************************************)
(* Pattern matching (the regular expressions of the extractors)            *)
(***************************************************************************)
\* \d+\s*c for a character c of chars
DigitWsChar(t, chars) ==
    \E i \in 1..Len(t) : \E j \in (i + 1)..Len(t) :
        /\ t[i] \in Digit
        /\ \A k \in (i + 1)..(j - 1) : t[k] \in WS
        /\ t[j] \in chars

\* w\s*\d+ for a word w
WordWsDigit(t, w) ==
    \E i \in 1..Len(t) : \E j \in (i + Len(w))..Len(t) :
        /\ SubSeq(t, i, i + Len(w) - 1) = w
        /\ \A k \in (i + Len(w))..(j - 1) : t[k] \in WS
        /\ t[j] \in Digit

\* \d{1,2}[seps]\d{1,2}
ShortDate(t, seps) ==
    \E i \in 1..(Len(t) - 2) :
        t[i] \in Digit /\ t[i + 1] \in seps /\ t[i + 2] \in Digit

\* \d{4}[./]\d{1,2}[./]\d{1,2}
FullDate(t) ==
    \E i \in 1..Len(t) : \E n \in 1..2 :
        /\ i + 6 + n <= Len(t)
        /\ \A k \in i..(i + 3) : t[k] \in Digit
        /\ t[i + 4] \in {".", "/"}
        /\ \A k \in (i + 5)..(i + 4 + n) : t[k] \in Digit
        /\ t[i + 5 + n] \in {".", "/"}
        /\ t[i + 6 + n] \in Digit

(***************************************************************************)
(* extract_title                                                           *)
(***************************************************************************)
\* page.title is the text between <title> and </title> ("" without one)
extract_title(page) == Normalize(page.title)

(***************************************************************************)
(* extract_bw_cards (the scored-keyword extractor)                         *)
(***************************************************************************)
BwMinLen == 6
BwMaxLen == 90
BwLimit == 15
GuaranteedNew == 2

\* 會員資料 會員通知 登入 註冊 推薦主題 活動列表 查看更多 下載APP
BwChrome ==
    {<<"u6703", "u54E1", "u8CC7", "u6599">>,
     <<"u6703", "u54E1", "u901A", "u77E5">>,
     <<"u767B", "u5165">>,
     <<"u8A3B", "u518A">>,
     <<"u63A8", "u85A6", "u4E3B", "u984C">>,
     <<"u6D3B", "u52D5", "u5217", "u8868">>,
     <<"u67E5", "u770B", "u66F4", "u591A">>,
     <<"u4E0B", "u8F09", "A", "P", "P">>}

\* 限時 優惠 折價券 回饋 書展 再折 加碼 特價
PromoKeywords ==
    {<<"u9650", "u6642">>,
     <<"u512A", "u60E0">>,
     <<"u6298", "u50F9", "u5238">>,
     <<"u56DE", "u994B">>,
     <<"u66F8", "u5C55">>,
     <<"u518D", "u6298">>,
     <<"u52A0", "u78BC">>,
     <<"u7279", "u50F9">>}

\* 閱讀報告 點數 領券 優惠券 抽獎 任務
ActivityKeywords ==
    {<<"u95B1", "u8B80", "u5831", "u544A">>,
     <<"u9EDE", "u6578">>,
     <<"u9818", "u5238">>,
     <<"u512A", "u60E0", "u5238">>,
     <<"u62BD", "u734E">>,
     <<"u4EFB", "u52D9">>}

\* 限制級 連載
RestrictedKeywords ==
    {<<"u9650", "u5236", "u7D1A">>,
     <<"u9023", "u8F09">>}

score(t) ==
      (IF DigitWsChar(t, {"u6298"}) THEN 6 ELSE 0)               \* \d+\s*折
    + (IF DigitWsChar(t, {"%", "uFF05"}) THEN 5 ELSE 0)          \* \d+\s*(%|％)
    + (IF WordWsDigit(t, <<"u6EFF">>) THEN 5 ELSE 0)             \* 滿\s*\d+
    + (IF \/ WordWsDigit(t, <<"u7279", "u50F9">>)                \* 特價\s*\d+
          \/ WordWsDigit(t, <<"u512A", "u60E0", "u50F9">>)       \* 優惠價\s*\d+
          \/ DigitWsChar(t, {"u5143"})                           \* \d+\s*元
       THEN 5 ELSE 0)
    + (IF ShortDate(t, {".", "/"}) THEN 4 ELSE 0)
    + (IF FullDate(t) THEN 4 ELSE 0)
    + (IF ContainsAny(t, PromoKeywords) THEN 3 ELSE 0)
    + (IF ContainsAny(t, ActivityKeywords) THEN 6 ELSE 0)
    - (IF ContainsAny(t, RestrictedKeywords) THEN 6 ELSE 0)

\* the card titles the previous snapshot holds for a platform; any failure
\* to read them gives none
PrevTitles(f, platform) ==
    IF f.state # "ok" THEN {}
    ELSE LET mine == {i \in 1..Len(f.items) : f.items[i].platform = platform}
         IN  IF mine = {} THEN {}
             ELSE Range(f.items[CHOOSE i \in mine : \A j \in mine : j <= i].card_titles)

\* the anchor texts that pass the length window and the chrome blocklist
BwCandidates(page) ==
    SelectSeq([i \in 1..Len(page.anchors) |-> Normalize(page.anchors[i].text)],
              LAMBDA t : /\ Len(t) >= BwMinLen
                         /\ Len(t) <= BwMaxLen
                         /\ ~ContainsAny(t, BwChrome))

RECURSIVE SortByScoreDesc(_)
\* list.sort(key=score, reverse=True): stable
SortByScoreDesc(ts) ==
    IF ts = <<>> THEN <<>>
    ELSE LET m == CHOOSE n \in {score(t) : t \in Range(ts)} :
                      \A t \in Range(ts) : score(t) <= n
         IN  SelectSeq(ts, LAMBDA t : score(t) = m)
             \o SortByScoreDesc(SelectSeq(ts, LAMBDA t : score(t) < m))

\* the positively scored candidates, best first
Scored(page) ==
    SortByScoreDesc(SelectSeq(BwCandidates(page), LAMBDA t : score(t) > 0))

\* the first scored candidates the previous snapshot does not hold
GuaranteedNewItems(page, f) ==
    Take(SelectSeq(Scored(page), LAMBDA t : t \notin PrevTitles(f, "BookWalker")),
         GuaranteedNew)

PromoLike(page) ==
    SelectSeq(Scored(page), LAMBDA t : ~ContainsAny(t, ActivityKeywords))

\* picked = guaranteed_new + promo_like
BwPicked(page, f) == GuaranteedNewItems(page, f) \o PromoLike(page)

extract_bw_cards(page, f) == pick_unique_texts(BwPicked(page, f), BwLimit)

(***************************************************************************)
(* Results of an extractor: a card list, or an exception with its message  *)
(***************************************************************************)
Returns(cards) == [ok |-> TRUE, cards |-> cards, error |-> <<>>]
Raises(msg) == [ok |-> FALSE, cards |-> <<>>, error |-> msg]

(***************************************************************************)
(* extract_readmoo_cards (the structured-data extractor)                   *)
(*                                                                         *)
(* page.campaigns is what the pattern const READMOO_CAMPAIGNS = [...];     *)
(* captures: state "absent" without a match, "malformed" when json.loads   *)
(* rejects the literal, else "list" with the elements in data.  A JSON     *)
(* value is [k, s, n]: kind "absent" (no such key), "null", "str" with the *)
(* text s, or "num" with the number n; an element of the list is a value   *)
(* or, with kind "obj", the four fields in o.                              *)
(***************************************************************************)
JAbsent == [k |-> "absent", s |-> <<>>, n |-> 0]
JNull == [k |-> "null", s |-> <<>>, n |-> 0]
JStr(t) == [k |-> "str", s |-> t, n |-> 0]
JNum(n) == [k |-> "num", s |-> <<>>, n |-> n]

NoFields ==
    [name |-> JAbsent, description |-> JAbsent, start_date |-> JAbsent, end_date |-> JAbsent]
JObj(name, description, start_date, end_date) ==
    [k |-> "obj", s |-> <<>>, n |-> 0,
     o |-> [name |-> name, description |-> description,
            start_date |-> start_date, end_date |-> end_date]]
\* a list element that is no object
JElem(j) == [k |-> j.k, s |-> j.s, n |-> j.n, o |-> NoFields]

NoCampaigns == [state |-> "absent", data |-> <<>>]
MalformedCampaigns == [state |-> "malformed", data |-> <<>>]
Campaigns(data) == [state |-> "list", data |-> data]

\* x or "": the falsy values give ""
Falsy(j) ==
    \/ j.k \in {"absent", "null"}
    \/ j.k = "str" /\ j.s = <<>>
    \/ j.k = "num" /\ j.n = 0

\* (item.get(key) or "").strip() raises unless the value is falsy or a string
FieldRaises(j) == ~Falsy(j) /\ j.k # "str"
FieldText(j) == IF Falsy(j) THEN <<>> ELSE Strip(j.s)

\* type(x).__name__
TypeName(j) ==
    CASE j.k = "num"  -> <<"i", "n", "t">>
      [] j.k = "str"  -> <<"s", "t", "r">>
      [] OTHER        -> <<"N", "o", "n", "e", "T", "y", "p", "e">>

\* str(AttributeError): '<type>' object has no attribute '<attr>'
NoAttribute(j, attr) ==
    <<"'">> \o TypeName(j)
    \o <<"'", " ", "o", "b", "j", "e", "c", "t", " ", "h", "a", "s", " ", "n", "o", " ",
         "a", "t", "t", "r", "i", "b", "u", "t", "e", " ", "'">>
    \o attr \o <<"'">>

RECURSIVE JoinSpace(_)
\* " ".join(parts)
JoinSpace(parts) ==
    IF parts = <<>> THEN <<>>
    ELSE IF Len(parts) = 1 THEN parts[1]
    ELSE parts[1] \o <<" ">> \o JoinSpace(Tail(parts))

\* one campaign's line: the present fields of name, description, start–end
ReadmooLine(e) ==
    LET name  == FieldText(e.o.name)
        desc  == FieldText(e.o.description)
        start == FieldText(e.o.start_date)
        end   == FieldText(e.o.end_date)
        dates == IF start # <<>> \/ end # <<>>
                 THEN start \o <<"u2013">> \o end ELSE <<>>
    IN  JoinSpace(SelectSeq(<<name, desc, dates>>, LAMBDA x : x # <<>>))

ReadmooFields == <<"name", "description", "start_date", "end_date">>

ElementRaises(e) ==
    \/ e.k # "obj"
    \/ \E i \in 1..Len(ReadmooFields) : FieldRaises(e.o[ReadmooFields[i]])

\* the message of the exception an element raises
ElementError(e) ==
    IF e.k # "obj" THEN NoAttribute(e, <<"g", "e", "t">>)
    ELSE LET i == CHOOSE i \in 1..Len(ReadmooFields) :
                      /\ FieldRaises(e.o[ReadmooFields[i]])
                      /\ \A j \in 1..(i - 1) : ~FieldRaises(e.o[ReadmooFields[j]])
         IN  NoAttribute(e.o[ReadmooFields[i]], <<"s", "t", "r", "i", "p">>)

extract_readmoo_cards(page) ==
    IF page.robot \/ page.javascript THEN Returns(<<>>)
    ELSE IF page.campaigns.state # "list" THEN Returns(<<>>)
    ELSE LET data == page.campaigns.data
             bad  == {i \in 1..Len(data) : ElementRaises(data[i])}
         IN  IF bad # {}
             THEN Raises(ElementError(data[CHOOSE i \in bad : \A j \in bad : i <= j]))
             ELSE Returns(SelectSeq([i \in 1..Len(data) |-> ReadmooLine(data[i])],
                                    LAMBDA line : line # <<>>))

(***************************************************************************)
(* Lower-casing and the walk from a node up its ancestors                  *)
(***************************************************************************)
UpperCase == <<"A", "B", "C", "D", "E", "F", "G", "H", "I", "J", "K", "L", "M",
               "N", "O", "P", "Q", "R", "S", "T", "U", "V", "W", "X", "Y", "Z">>
LowerCase == <<"a", "b", "c", "d", "e", "f", "g", "h", "i", "j", "k", "l", "m",
               "n", "o", "p", "q", "r", "s", "t", "u", "v", "w", "x", "y", "z">>

LowerChar(c) ==
    IF \E k \in 1..Len(UpperCase) : UpperCase[k] = c
    THEN LowerCase[CHOOSE k \in 1..Len(UpperCase) : UpperCase[k] = c]
    ELSE c

\* str.lower()
Lower(t) == [i \in 1..Len(t) |-> LowerChar(t[i])]

RECURSIVE DedupFrom(_, _)
DedupFrom(seen, rest) ==
    IF rest = <<>> THEN seen
    ELSE IF Head(rest) \in Range(seen) THEN DedupFrom(seen, Tail(rest))
         ELSE DedupFrom(Append(seen, Head(rest)), Tail(rest))

\* seen-set deduplication that keeps the first occurrence
Dedup(s) == DedupFrom(<<>>, s)

ContainerTags == {"div", "li", "article", "section"}

\* [t.strip() for t in node.stripped_strings if t.strip()]
StrippedTexts(node) ==
    SelectSeq([i \in 1..Len(node.texts) |-> Strip(node.texts[i])],
              LAMBDA t : t # <<>>)

\* the texts of the first of the first `levels` nodes of a chain (a node,
\* its parent, its grandparent, ...) that is a container with two texts or
\* more; <<>> when there is none
ContainerTexts(chain, levels) ==
    LET hits == {i \in 1..Min(levels, Len(chain)) :
                    /\ chain[i].name \in ContainerTags
                    /\ Len(StrippedTexts(chain[i])) >= 2}
    IN  IF hits = {} THEN <<>>
        ELSE StrippedTexts(chain[CHOOSE i \in hits : \A j \in hits : i <= j])

\* line[:keep] + "…" for a line longer than max
Ellipsize(line, max) ==
    IF Len(line) > max THEN SubSeq(line, 1, max - 3) \o <<"u2026">> ELSE line

First(s) == IF s = <<>> THEN <<>> ELSE s[1]

(***************************************************************************)
(* extract_hyread_cards (the DOM-ancestor card extractor)                  *)
(***************************************************************************)
HyreadLevels == 5
HyreadMetaMax == 60
HyreadTitleMin == 4
HyreadTitleMax == 30
HyreadLineMax == 90
HyreadLimit == 12

\* 折 元 % ％ 滿 再折 限時 週末 限定 /
MetaWords ==
    {<<"u6298">>,
     <<"u5143">>,
     <<"%">>,
     <<"uFF05">>,
     <<"u6EFF">>,
     <<"u518D", "u6298">>,
     <<"u9650", "u6642">>,
     <<"u9031", "u672B">>,
     <<"u9650", "u5B9A">>,
     <<"/">>}

looks_like_meta(s) == ContainsAny(s, MetaWords) \/ ShortDate(s, {".", "/", "-"})

\* the line of one anchor, <<>> when the anchor gives none
HyreadLine(a) ==
    LET href  == Strip(a.href)
        texts == ContainerTexts(a.chain, HyreadLevels)
        meta  == SelectSeq(texts, LAMBDA t : looks_like_meta(t) /\ Len(t) <= HyreadMetaMax)
        plain == SelectSeq(texts, LAMBDA t : /\ ~looks_like_meta(t)
                                              /\ Len(t) >= HyreadTitleMin
                                              /\ Len(t) <= HyreadTitleMax)
        short == SelectSeq(texts, LAMBDA t : /\ Len(t) >= HyreadTitleMin
                                              /\ Len(t) <= HyreadTitleMax)
        subtitle == Normalize(First(meta))
        title == Normalize(IF plain # <<>> THEN plain[1] ELSE First(short))
    IN  IF href = <<>> \/ ~Contains(Lower(href), <<"e", "v", "e", "n", "t">>) THEN <<>>
        ELSE IF texts = <<>> \/ title = <<>> THEN <<>>
        ELSE Ellipsize(IF subtitle # <<>> THEN title \o <<"uFF5C">> \o subtitle ELSE title,
                       HyreadLineMax)

HyreadResults(page) ==
    Dedup(SelectSeq([i \in 1..Len(page.anchors) |-> HyreadLine(page.anchors[i])],
                    LAMBDA line : line # <<>>))

extract_hyread_cards(page) == pick_unique_texts(HyreadResults(page), HyreadLimit)

(***************************************************************************)
(* extract_books_cards (the keyword-filtered link extractor)               *)
(***************************************************************************)
BooksMinLen == 6
BooksMaxLen == 80
BooksLimit == 12

\* 登入 註冊 會員 購物車 客服 更多 返回
BooksChrome ==
    {<<"u767B", "u5165">>,
     <<"u8A3B", "u518A">>,
     <<"u6703", "u54E1">>,
     <<"u8CFC", "u7269", "u8ECA">>,
     <<"u5BA2", "u670D">>,
     <<"u66F4", "u591A">>,
     <<"u8FD4", "u56DE">>}

\* 折 優惠 活動 書展 特價 回饋 滿 限時
BooksKeywords ==
    {<<"u6298">>,
     <<"u512A", "u60E0">>,
     <<"u6D3B", "u52D5">>,
     <<"u66F8", "u5C55">>,
     <<"u7279", "u50F9">>,
     <<"u56DE", "u994B">>,
     <<"u6EFF">>,
     <<"u9650", "u6642">>}

BooksCandidates(page) ==
    SelectSeq([i \in 1..Len(page.anchors) |-> Normalize(page.anchors[i].text)],
              LAMBDA t : /\ Len(t) >= BooksMinLen
                         /\ Len(t) <= BooksMaxLen
                         /\ ~ContainsAny(t, BooksChrome)
                         /\ ContainsAny(t, BooksKeywords))

extract_books_cards(page) == pick_unique_texts(BooksCandidates(page), BooksLimit)

(***************************************************************************)
(* extract_pubu_cards (the date-anchored card extractor)                   *)
(***************************************************************************)
PubuLevels == 6
PubuTitleMax == 40
PubuLineMax == 100
PubuLimit == 12

\* \d{4}-\d{2}-\d{2} at position i
DateAt(t, i) ==
    /\ i + 9 <= Len(t)
    /\ \A k \in {i, i + 1, i + 2, i + 3, i + 5, i + 6, i + 8, i + 9} : t[k] \in Digit
    /\ t[i + 4] = "-" /\ t[i + 7] = "-"

\* len(date_re.findall(t)): matches do not overlap
DateCount(t) ==
    LET F[i \in 1..(Len(t) + 10)] ==
            IF i > Len(t) THEN 0
            ELSE IF DateAt(t, i) THEN 1 + F[i + 10]
            ELSE F[i + 1]
    IN  F[1]

\* 活動期間 活動時間
PeriodWords ==
    {<<"u6D3B", "u52D5", "u671F", "u9593">>,
     <<"u6D3B", "u52D5", "u6642", "u9593">>}

\* the line of one text node, <<>> when the node gives none
PubuLine(el) ==
    LET txt   == Normalize(el.text)
        texts == ContainerTexts(el.chain, PubuLevels)
        titles == SelectSeq(texts, LAMBDA t : /\ Len(t) <= PubuTitleMax
                                               /\ DateCount(t) = 0
                                               /\ ~ContainsAny(t, PeriodWords))
        periods == SelectSeq(texts, LAMBDA t : DateCount(t) >= 2)
        title == First(titles)
        period == Normalize(First(periods))
    IN  IF DateCount(el.text) = 0 THEN <<>>
        ELSE IF ~ContainsAny(txt, PeriodWords) /\ DateCount(txt) < 2 THEN <<>>
        ELSE IF texts = <<>> \/ title = <<>> THEN <<>>
        ELSE Ellipsize(IF period # <<>> THEN title \o <<"uFF5C">> \o period ELSE title,
                       PubuLineMax)

PubuResults(page) ==
    Dedup(SelectSeq([i \in 1..Len(page.strings) |-> PubuLine(page.strings[i])],
                    LAMBDA line : line # <<>>))

extract_pubu_cards(page) == pick_unique_texts(PubuResults(page), PubuLimit)

(***************************************************************************)
(* make_signature: json.dumps(base, ensure_ascii=False, sort_keys=True)    *)
(***************************************************************************)
SigCards == 8
SigErrorLen == 120

DigitChars == <<"0", "1", "2", "3", "4", "5", "6", "7", "8", "9">>

RECURSIVE IntText(_)
\* the decimal digits of a natural number
IntText(n) ==
    IF n < 10 THEN <<DigitChars[n + 1]>>
    ELSE IntText(n \div 10) \o <<DigitChars[(n % 10) + 1]>>

JsonEscapeChar(c) ==
    CASE c = "\"" -> <<"\\", "\"">>
      [] c = "\\" -> <<"\\", "\\">>
      [] c = "\n" -> <<"\\", "n">>
      [] c = "\t" -> <<"\\", "t">>
      [] OTHER    -> <<c>>

RECURSIVE JsonEscape(_)
\* every character escaped (by halves: the texts are long)
JsonEscape(t) ==
    IF t = <<>> THEN <<>>
    ELSE IF Len(t) = 1 THEN JsonEscapeChar(t[1])
    ELSE JsonEscape(SubSeq(t, 1, Len(t) \div 2))
         \o JsonEscape(SubSeq(t, (Len(t) \div 2) + 1, Len(t)))

\* a JSON string
JsonString(t) == <<"\"">> \o JsonEscape(t) \o <<"\"">>

RECURSIVE JsonJoin(_)
\* the elements of a JSON list, separated by ", "
JsonJoin(ts) ==
    IF ts = <<>> THEN <<>>
    ELSE IF Len(ts) = 1 THEN JsonString(ts[1])
    ELSE JsonString(ts[1]) \o <<",", " ">> \o JsonJoin(Tail(ts))

JsonList(ts) == <<"[">> \o JsonJoin(ts) \o <<"]">>

\* "key": 
JsonKey(k) == JsonString(k) \o <<":", " ">>

\* a fingerprint that leaves the cards out
make_signature_without_cards(page_title, card_titles, status, error) ==
    <<"{">>
    \o JsonKey(<<"e", "r", "r", "o", "r">>) \o JsonString(Take(error, SigErrorLen))
    \o <<",", " ">>
    \o JsonKey(<<"s", "t", "a", "t", "u", "s">>) \o IntText(status)
    \o <<",", " ">>
    \o JsonKey(<<"t", "i", "t", "l", "e">>) \o JsonString(page_title)
    \o <<"}">>

\* {"cards": [...], "error": "...", "status": n, "title": "..."}
make_signature(page_title, card_titles, status, error) ==
    <<"{">>
    \o JsonKey(<<"c", "a", "r", "d", "s">>) \o JsonList(Take(card_titles, SigCards))
    \o <<",", " ">>
    \o JsonKey(<<"e", "r", "r", "o", "r">>) \o JsonString(Take(error, SigErrorLen))
    \o <<",", " ">>
    \o JsonKey(<<"s", "t", "a", "t", "u", "s">>) \o IntText(status)
    \o <<",", " ">>
    \o JsonKey(<<"t", "i", "t", "l", "e">>) \o JsonString(page_title)
    \o <<"}">>

(***************************************************************************)
(* Configuration                                                           *)
(***************************************************************************)
PARSER_VERSION == 2

\* "Books" stands for the platform 博客來
URLS ==
    << [platform |-> "BookWalker", extra |-> "bw"],
       [platform |-> "Readmoo",    extra |-> "readmoo"],
       [platform |-> "HyRead",     extra |-> "hyread"],
       [platform |-> "Pubu",       extra |-> "pubu"],
       [platform |-> "Kobo",       extra |-> "none"],
       [platform |-> "Books",      extra |-> "books"] >>

Platforms == {URLS[i].platform : i \in 1..Len(URLS)}

\* has_new_changes: 是 / 否
Yes == <<"u662F">>
No == <<"u5426">>

\* Readmoo 疑似反機器人/JS 驗證，Actions 抓到的不是活動頁內容
ReadmooChallengeError ==
    <<"R", "e", "a", "d", "m", "o", "o", " ", "u7591", "u4F3C", "u53CD",
      "u6A5F", "u5668", "u4EBA", "/", "J", "S", " ", "u9A57", "u8B49",
      "uFF0C", "A", "c", "t", "i", "o", "n", "s", " ", "u6293", "u5230",
      "u7684", "u4E0D", "u662F", "u6D3B", "u52D5", "u9801", "u5167",
      "u5BB9">>

\* 需要 JavaScript 驗證，Actions 無法取得活動清單
JsReason ==
    <<"u9700", "u8981", " ", "J", "a", "v", "a", "S", "c", "r", "i", "p",
      "t", " ", "u9A57", "u8B49", "uFF0C", "A", "c", "t", "i", "o", "n",
      "s", " ", "u7121", "u6CD5", "u53D6", "u5F97", "u6D3B", "u52D5",
      "u6E05", "u55AE">>

\* 疑似反機器人/JS 驗證，無法取得活動清單
SuspectedReason ==
    <<"u7591", "u4F3C", "u53CD", "u6A5F", "u5668", "u4EBA", "/", "J", "S",
      " ", "u9A57", "u8B49", "uFF0C", "u7121", "u6CD5", "u53D6", "u5F97",
      "u6D3B", "u52D5", "u6E05", "u55AE">>

\* 入口模式：博客來活動頁資訊流雜訊高，v1 先只保留入口連結
EntryReason ==
    <<"u5165", "u53E3", "u6A21", "u5F0F", "uFF1A", "u535A", "u5BA2",
      "u4F86", "u6D3B", "u52D5", "u9801", "u8CC7", "u8A0A", "u6D41",
      "u96DC", "u8A0A", "u9AD8", "uFF0C", "v", "1", " ", "u5148", "u53EA",
      "u4FDD", "u7559", "u5165", "u53E3", "u9023", "u7D50">>

(***************************************************************************)
(* The snapshot file data/deals.json and load_prev_signature               *)
(***************************************************************************)
\* parser_version: a number, or None
Version(n) == [k |-> "num", n |-> n]
NoVersion == [k |-> "null", n |-> 0]

NoFile ==
    [state |-> "missing", parser_version |-> NoVersion, has_new_changes |-> <<>>,
     changed_platforms |-> <<>>, items |-> <<>>]
CorruptFile == [NoFile EXCEPT !.state = "corrupt"]

\* the signature the last item of a platform holds in a snapshot, "" without one
LastSignature(f, p) ==
    LET mine == {i \in 1..Len(f.items) : f.items[i].platform = p}
    IN  IF mine = {} THEN <<>>
        ELSE f.items[CHOOSE i \in mine : \A j \in mine : j <= i].signature

\* sig[p] is what prev_sig.get(p) gives; "" stands for None, both are falsy
load_prev_signature(f) ==
    IF f.state # "ok"
    THEN [parser_version |-> NoVersion, sig |-> [p \in Platforms |-> <<>>]]
    ELSE [parser_version |-> f.parser_version,
          sig |-> [p \in Platforms |-> LastSignature(f, p)]]

(***************************************************************************)
(* Pages and fetch outcomes                                                *)
(*                                                                         *)
(* A page stands for the HTML text of a response by what the program reads *)
(* of it: title is the text inside <title>; robot and javascript say       *)
(* whether html.lower() contains "verify that you're not a robot" and      *)
(* "enable javascript"; marker says whether the html contains              *)
(* READMOO_CAMPAIGNS as written ("exact"), only in another case ("lower")  *)
(* or not at all ("none"); anchors are the <a> elements in document order, *)
(* each with its text, its href and the chain of nodes from itself up its  *)
(* ancestors; strings are the text nodes with the chain from their parent  *)
(* upwards.                                                                *)
(***************************************************************************)
Node(name, texts) == [name |-> name, texts |-> texts]
Anchor(text, href, chain) == [text |-> text, href |-> href, chain |-> chain]
TextNode(text, chain) == [text |-> text, chain |-> chain]

NoPage ==
    [title |-> <<>>, robot |-> FALSE, javascript |-> FALSE, marker |-> "none",
     campaigns |-> NoCampaigns, anchors |-> <<>>, strings |-> <<>>]

\* fetch_html returned {"text", "status"}
FetchOk(page) == [kind |-> "ok", page |-> page, status |-> 200, error |-> <<>>]
\* raise_for_status raised requests.HTTPError
HttpError(status, msg) == [kind |-> "http_error", page |-> NoPage, status |-> status, error |-> msg]
\* requests.get raised anything else
FetchError(msg) == [kind |-> "error", page |-> NoPage, status |-> 0, error |-> msg]

(***************************************************************************)
(* main: one iteration of the loop over URLS                               *)
(***************************************************************************)
Unbound == [bound |-> FALSE, page |-> NoPage]

\* the extractor chosen by x["extra"]; Kobo has none
Extract(extra, page, f) ==
    CASE extra = "bw"      -> {Returns(c) : c \in extract_bw_cards(page, f)}
      [] extra = "readmoo" -> {extract_readmoo_cards(page)}
      [] extra = "hyread"  -> {Returns(c) : c \in extract_hyread_cards(page)}
      [] extra = "books"   -> {Returns(c) : c \in extract_books_cards(page)}
      [] extra = "pubu"    -> {Returns(c) : c \in extract_pubu_cards(page)}
      [] OTHER             -> {Returns(<<>>)}

\* title, card_titles, status and error after the try statement
TryBlock(x, o, f) ==
    IF o.kind = "ok"
    THEN {[title |-> extract_title(o.page), card_titles |-> r.cards,
           status |-> o.status, error |-> r.error] : r \in Extract(x.extra, o.page, f)}
    ELSE {[title |-> <<>>, card_titles |-> <<>>, status |-> o.status, error |-> o.error]}

\* html is assigned only when fetch_html returns
HtmlAfter(h, o) == IF o.kind = "ok" THEN [bound |-> TRUE, page |-> o.page] ELSE h

\* the test without the comparison of parser versions
IsChangedAtAnyVersion(ver, sig, platform, signature) ==
    /\ sig[platform] # <<>>
    /\ sig[platform] # signature

\* the test that appends to changed_platforms
IsChanged(ver, sig, platform, signature) ==
    /\ ver = Version(PARSER_VERSION)
    /\ sig[platform] # <<>>
    /\ sig[platform] # signature

\* reading html at the Readmoo test raises UnboundLocalError when no fetch
\* of this run has returned yet
ReadsUnbound(platform, h) == platform = "Readmoo" /\ ~h.bound

\* the error of the entry: Readmoo's is replaced when html is a challenge page
EntryError(platform, h, error) ==
    IF /\ platform = "Readmoo"
       /\ h.page.marker # "exact"
       /\ (h.page.robot \/ h.page.javascript)
    THEN ReadmooChallengeError
    ELSE error

Block(reason) == [blocked |-> TRUE, blocked_reason |-> reason]
NotBlocked == [blocked |-> FALSE, blocked_reason |-> <<>>]

\* blocked and blocked_reason: the rule of the platform, then the entry mode
\* of Books over it
Blocking(platform, h, error, card_titles) ==
    LET p == IF h.bound THEN h.page ELSE NoPage
        b == IF platform = "Readmoo"
             THEN IF /\ error # <<>>
                     /\ \/ Contains(Lower(error), <<"r", "o", "b", "o", "t">>)
                        \/ Contains(Lower(error),
                                    <<"j", "a", "v", "a", "s", "c", "r", "i", "p", "t">>)
                        \/ Contains(Lower(error), <<"j", "s">>)
                  THEN Block(JsReason)
                  ELSE NotBlocked
             ELSE IF p.robot \/ p.javascript THEN Block(JsReason)
             ELSE IF p.marker = "none" /\ card_titles = <<>> THEN Block(SuspectedReason)
             ELSE NotBlocked
    IN  IF platform = "Books" THEN Block(EntryReason) ELSE b

\* the entry appended to items
Entry(x, t, h) ==
    LET error == EntryError(x.platform, h, t.error)
        b     == Blocking(x.platform, h, error, t.card_titles)
    IN  [platform       |-> x.platform,
         page_title     |-> t.title,
         card_titles    |-> t.card_titles,
         http_status    |-> t.status,
         error          |-> error,
         signature      |-> make_signature(t.title, t.card_titles, t.status, t.error),
         blocked        |-> b.blocked,
         blocked_reason |-> b.blocked_reason]

\* history: what the iteration fetched and what it fingerprinted
Fetched(o, t) ==
    [outcome |-> o, title |-> t.title, card_titles |-> t.card_titles,
     status |-> t.status, error |-> t.error]

NoRun == [completed |-> FALSE, repeat |-> FALSE, fetched |-> <<>>]

(***************************************************************************)
(* main: the actions                                                       *)
(***************************************************************************)
\* main() starts: load_prev_signature and the empty lists
StartRun ==
    /\ pc \in {"idle", "crashed"}
    /\ runsLeft > 0
    /\ runsLeft' = runsLeft - 1
    /\ prev_ver' = load_prev_signature(file).parser_version
    /\ prev_sig' = load_prev_signature(file).sig
    /\ items' = <<>>
    /\ changed_platforms' = <<>>
    /\ html' = Unbound
    /\ fetched' = <<>>
    /\ idx' = 1
    /\ pc' = "loop"
    /\ UNCHANGED <<file, web, lastRun, call>>

\* one iteration of the loop, from the fetch to items.append
ProcessPlatform ==
    /\ pc = "loop"
    /\ idx <= Len(URLS)
    /\ \E o \in web[URLS[idx].platform] : \E t \in TryBlock(URLS[idx], o, file) :
        LET x == URLS[idx]
            h == HtmlAfter(html, o)
            signature == make_signature(t.title, t.card_titles, t.status, t.error)
        IN  /\ ~ReadsUnbound(x.platform, h)
            /\ html' = h
            /\ changed_platforms' =
                   IF IsChanged(prev_ver, prev_sig, x.platform, signature)
                   THEN Append(changed_platforms, x.platform)
                   ELSE changed_platforms
            /\ items' = Append(items, Entry(x, t, h))
            /\ fetched' = Append(fetched, Fetched(o, t))
    /\ idx' = idx + 1
    /\ UNCHANGED <<file, pc, prev_ver, prev_sig, web, runsLeft, lastRun, call>>

\* the iteration that ends main() with an uncaught UnboundLocalError: no
\* entry is appended and nothing is written
Crash ==
    /\ pc = "loop"
    /\ idx <= Len(URLS)
    /\ \E o \in web[URLS[idx].platform] : \E t \in TryBlock(URLS[idx], o, file) :
        LET x == URLS[idx]
            h == HtmlAfter(html, o)
            signature == make_signature(t.title, t.card_titles, t.status, t.error)
        IN  /\ ReadsUnbound(x.platform, h)
            /\ html' = h
            /\ changed_platforms' =
                   IF IsChanged(prev_ver, prev_sig, x.platform, signature)
                   THEN Append(changed_platforms, x.platform)
                   ELSE changed_platforms
            /\ fetched' = Append(fetched, Fetched(o, t))
    /\ pc' = "crashed"
    /\ lastRun' = NoRun
    /\ UNCHANGED <<file, idx, prev_ver, prev_sig, items, web, runsLeft, call>>

\* the payload main() writes to data/deals.json
Payload ==
    [state             |-> "ok",
     parser_version    |-> Version(PARSER_VERSION),
     has_new_changes   |-> IF Len(changed_platforms) > 0 THEN Yes ELSE No,
     changed_platforms |-> changed_platforms,
     items             |-> items]

\* after the loop: json.dump(payload)
Persist ==
    /\ pc = "loop"
    /\ idx = Len(URLS) + 1
    /\ file' = Payload
    /\ pc' = "idle"
    /\ lastRun' = [completed |-> TRUE,
                   repeat    |-> /\ lastRun.completed
                                 /\ \A k \in 1..Len(URLS) :
                                        lastRun.fetched[k].outcome = fetched[k].outcome,
                   fetched   |-> fetched]
    /\ UNCHANGED <<idx, prev_ver, prev_sig, items, changed_platforms, html,
                   web, runsLeft, fetched, call>>

(***************************************************************************)
(* The pages and errors the model fetches                                  *)
(***************************************************************************)
\* "BOOKWALKER \n  活動"
BwTitle ==
    <<"B", "O", "O", "K", "W", "A", "L", "K", "E", "R", " ", "\n", " ",
      " ", "u6D3B", "u52D5">>

\* "會員登入專區"
BwChromeLink ==
    <<"u6703", "u54E1", "u767B", "u5165", "u5C08", "u5340">>

\* "閱讀報告 抽獎活動"
BwActivity ==
    <<"u95B1", "u8B80", "u5831", "u544A", " ", "u62BD", "u734E", "u6D3B",
      "u52D5">>

\* "漫畫全館  85折"
BwPromoA ==
    <<"u6F2B", "u756B", "u5168", "u9928", " ", " ", "8", "5", "u6298">>

\* "小說全館 79折"
BwPromoB ==
    <<"u5C0F", "u8AAA", "u5168", "u9928", " ", "7", "9", "u6298">>

\* "全館 85折"
BwContained ==
    <<"u5168", "u9928", " ", "8", "5", "u6298">>

\* "85折"
BwShort ==
    <<"8", "5", "u6298">>

\* "限制級連載 5折"
BwRestricted ==
    <<"u9650", "u5236", "u7D1A", "u9023", "u8F09", " ", "5", "u6298">>

\* "Readmoo 活動"
RmTitle ==
    <<"R", "e", "a", "d", "m", "o", "o", " ", "u6D3B", "u52D5">>

\* "Spring Sale"
SpringSale ==
    <<"S", "p", "r", "i", "n", "g", " ", "S", "a", "l", "e">>

\* " Spring Sale\t"
SpringSalePadded ==
    <<" ", "S", "p", "r", "i", "n", "g", " ", "S", "a", "l", "e", "\t">>

\* "2025-01-01"
Jan01 ==
    <<"2", "0", "2", "5", "-", "0", "1", "-", "0", "1">>

\* "2025-01-31"
Jan31 ==
    <<"2", "0", "2", "5", "-", "0", "1", "-", "3", "1">>

\* "Just a moment..."
ChallengeTitle ==
    <<"J", "u", "s", "t", " ", "a", " ", "m", "o", "m", "e", "n", "t", ".",
      ".", ".">>

\* "HyRead 熱門活動"
HyTitle ==
    <<"H", "y", "R", "e", "a", "d", " ", "u71B1", "u9580", "u6D3B",
      "u52D5">>

\* "/event/123"
HyHrefA ==
    <<"/", "e", "v", "e", "n", "t", "/", "1", "2", "3">>

\* " /EVENT/9 "
HyHrefB ==
    <<" ", "/", "E", "V", "E", "N", "T", "/", "9", " ">>

\* "/book/1"
HyHrefC ==
    <<"/", "b", "o", "o", "k", "/", "1">>

\* "春季書展"
HyFair ==
    <<"u6625", "u5B63", "u66F8", "u5C55">>

\* "全館 79折 3/1-3/31"
HyFairMeta ==
    <<"u5168", "u9928", " ", "7", "9", "u6298", " ", "3", "/", "1", "-",
      "3", "/", "3", "1">>

\* " 限時特賣 "
HyFlash ==
    <<" ", "u9650", "u6642", "u7279", "u8CE3", " ">>

\* "more"
HyMore ==
    <<"m", "o", "r", "e">>

\* "Pubu 全站活動"
PubuTitle ==
    <<"P", "u", "b", "u", " ", "u5168", "u7AD9", "u6D3B", "u52D5">>

\* "新年特賣"
PubuSale ==
    <<"u65B0", "u5E74", "u7279", "u8CE3">>

\* "活動期間 2025-01-01  -  2025-01-31"
PubuPeriod ==
    <<"u6D3B", "u52D5", "u671F", "u9593", " ", "2", "0", "2", "5", "-",
      "0", "1", "-", "0", "1", " ", " ", "-", " ", " ", "2", "0", "2", "5",
      "-", "0", "1", "-", "3", "1">>

\* "2025-02-01"
PubuDate ==
    <<"2", "0", "2", "5", "-", "0", "2", "-", "0", "1">>

\* "Kobo"
KoboTitle ==
    <<"K", "o", "b", "o">>

\* "博客來"
BooksTitle ==
    <<"u535A", "u5BA2", "u4F86">>

\* "403 Client Error: Forbidden for url"
Err403 ==
    <<"4", "0", "3", " ", "C", "l", "i", "e", "n", "t", " ", "E", "r", "r",
      "o", "r", ":", " ", "F", "o", "r", "b", "i", "d", "d", "e", "n", " ",
      "f", "o", "r", " ", "u", "r", "l">>

\* "Read timed out. "
ErrTimeout ==
    <<"R", "e", "a", "d", " ", "t", "i", "m", "e", "d", " ", "o", "u", "t",
      ".", " ">>

\* n copies of a character
Rep(c, n) == [i \in 1..n |-> c]

\* two messages of more than 120 characters that differ after the 120th
LongErrorA == ErrTimeout \o Rep("x", SigErrorLen) \o <<"a">>
LongErrorB == ErrTimeout \o Rep("x", SigErrorLen) \o <<"b">>

Link(text) == Anchor(text, <<>>, <<>>)

BwPage ==
    [NoPage EXCEPT !.title = BwTitle,
                   !.anchors = <<Link(BwChromeLink), Link(BwActivity), Link(BwPromoA),
                                 Link(BwPromoB), Link(BwContained), Link(BwShort),
                                 Link(BwRestricted)>>]

SpringCampaigns ==
    Campaigns(<<JObj(JStr(SpringSale), JAbsent, JStr(Jan01), JStr(Jan31)),
                JObj(JStr(SpringSalePadded), JNull, JAbsent, JStr(<<>>)),
                JObj(JNum(0), JAbsent, JAbsent, JAbsent)>>)

RmPage == [NoPage EXCEPT !.title = RmTitle, !.marker = "exact", !.campaigns = SpringCampaigns]

\* a campaign list with an element that is no object
RmBadElement ==
    [NoPage EXCEPT !.title = RmTitle, !.marker = "exact",
                   !.campaigns = Campaigns(<<JObj(JStr(SpringSale), JAbsent, JAbsent, JAbsent),
                                             JElem(JNum(1))>>)]

\* a challenge page
ChallengePage == [NoPage EXCEPT !.title = ChallengeTitle, !.robot = TRUE]
\* a challenge page that also holds the campaign script
ChallengeWithCampaigns == [RmPage EXCEPT !.robot = TRUE]

HyPage ==
    [NoPage EXCEPT
        !.title = HyTitle,
        !.anchors = <<Anchor(HyFair, HyHrefA,
                             <<Node("a", <<HyFair>>),
                               Node("div", <<HyFair, HyFairMeta>>)>>),
                      Anchor(HyMore, HyHrefB,
                             <<Node("a", <<HyMore>>),
                               Node("span", <<HyMore>>),
                               Node("li", <<HyFlash, HyMore>>)>>),
                      Anchor(HyFair, HyHrefC,
                             <<Node("a", <<HyFair>>),
                               Node("div", <<HyFair, HyFairMeta>>)>>)>>]

PubuPage ==
    [NoPage EXCEPT
        !.title = PubuTitle,
        !.strings = <<TextNode(PubuPeriod,
                               <<Node("p", <<PubuPeriod>>),
                                 Node("div", <<PubuSale, PubuPeriod>>)>>),
                      TextNode(PubuDate,
                               <<Node("div", <<PubuSale, PubuDate>>)>>)>>]

KoboPage == [NoPage EXCEPT !.title = KoboTitle]

\* a promotional link text of n characters: 折 after n - 1 copies of c
Promo(c, n) == Rep(c, n - 1) \o <<"u6298">>

\* thirteen links of thirteen lengths, shortest first: one more than the
\* extractor keeps
BooksLinks(second, last) ==
    <<Link(Promo("a", 6)), Link(Promo(second, 7)), Link(Promo("c", 8)),
      Link(Promo("d", 9)), Link(Promo("e", 10)), Link(Promo("f", 11)),
      Link(Promo("g", 12)), Link(Promo("h", 13)), Link(Promo("i", 14)),
      Link(Promo("j", 15)), Link(Promo("k", 16)), Link(Promo("l", 17)),
      Link(Promo(last, 18))>>

BooksPage == [NoPage EXCEPT !.title = BooksTitle, !.anchors = BooksLinks("b", "m")]
\* the same page with another longest link: the first card differs
BooksPageFirst == [BooksPage EXCEPT !.anchors = BooksLinks("b", "z")]
\* the same page with another second-shortest link: the twelfth card differs
BooksPageLate == [BooksPage EXCEPT !.anchors = BooksLinks("z", "m")]

(***************************************************************************)
(* The environment: what the servers answer and the file before the first  *)
(* run                                                                     *)
(***************************************************************************)
MaxRuns == 2

Forbidden == HttpError(403, Err403)

\* every platform answers with its page, with a challenge page or not at all
WideWeb ==
    [p \in Platforms |->
        CASE p = "BookWalker" -> {FetchOk(BwPage), FetchOk(ChallengePage), Forbidden}
          [] p = "Readmoo"    -> {FetchOk(RmPage), FetchOk(ChallengePage),
                                  FetchOk(ChallengeWithCampaigns), FetchOk(RmBadElement),
                                  FetchError(ErrTimeout)}
          [] p = "HyRead"     -> {FetchOk(HyPage), FetchOk(ChallengePage), Forbidden}
          [] p = "Pubu"       -> {FetchOk(PubuPage), FetchOk(ChallengePage), Forbidden}
          [] p = "Kobo"       -> {FetchOk(KoboPage), FetchOk(ChallengePage), Forbidden}
          [] p = "Books"      -> {FetchOk(BooksPage), FetchOk(ChallengePage), Forbidden}]

\* the answers change little from one run to the next
SteadyWeb ==
    [p \in Platforms |->
        CASE p = "BookWalker" -> {FetchOk(BwPage), Forbidden}
          [] p = "Readmoo"    -> {FetchOk(RmPage), FetchError(LongErrorA), FetchError(LongErrorB)}
          [] p = "HyRead"     -> {FetchOk(HyPage)}
          [] p = "Pubu"       -> {FetchOk(PubuPage)}
          [] p = "Kobo"       -> {FetchOk(KoboPage)}
          [] p = "Books"      -> {FetchOk(BooksPage), FetchOk(BooksPageFirst),
                                  FetchOk(BooksPageLate)}]

\* one run against the wide web, or MaxRuns runs against the steady one
Worlds == {[web |-> WideWeb, runs |-> 1], [web |-> SteadyWeb, runs |-> MaxRuns]}

\* "v1"
OldSignature == <<"v", "1">>

OldItem(platform, cards) ==
    [platform |-> platform, page_title |-> <<>>, card_titles |-> cards, http_status |-> 200,
     error |-> <<>>, signature |-> OldSignature, blocked |-> FALSE, blocked_reason |-> <<>>]

\* a snapshot written by the previous version of the parser
OldSnapshot ==
    [state             |-> "ok",
     parser_version    |-> Version(PARSER_VERSION - 1),
     has_new_changes   |-> No,
     changed_platforms |-> <<>>,
     items             |-> <<OldItem("BookWalker", <<Normalize(BwPromoA)>>),
                             OldItem("Readmoo", <<>>)>>]

InitialFiles == {NoFile, CorruptFile, OldSnapshot}

NoCall == [fn |-> "none", texts |-> <<>>, limit |-> 0, page |-> NoPage, prev |-> NoFile,
           raised |-> FALSE, result |-> <<>>]

Init ==
    /\ file \in InitialFiles
    /\ \E w \in Worlds : web = w.web /\ runsLeft = w.runs
    /\ pc = "idle"
    /\ idx = 1
    /\ prev_ver = NoVersion
    /\ prev_sig = [p \in Platforms |-> <<>>]
    /\ items = <<>>
    /\ changed_platforms = <<>>
    /\ html = Unbound
    /\ fetched = <<>>
    /\ lastRun = NoRun
    /\ call = NoCall

Next == StartRun \/ ProcessPlatform \/ Crash \/ Persist

Spec == Init /\ [][Next]_vars

(***************************************************************************)
(* The functions on their own: one call with arguments from small sets     *)
(***************************************************************************)
MaxTexts == 3
MaxLimit == 3

\* "abcd"
TxtAbcd == <<"a", "b", "c", "d">>
\* "abcde"
TxtAbcde == <<"a", "b", "c", "d", "e">>
\* "bcde"
TxtBcde == <<"b", "c", "d", "e">>
\* " abcd\n"
TxtPadded == <<" ", "a", "b", "c", "d", "\n">>
\* "ab \t cd"
TxtGap == <<"a", "b", " ", "\t", " ", "c", "d">>
\* "abc"
TxtShort == <<"a", "b", "c">>
\* "a \t b"
TxtShortGap == <<"a", " ", "\t", " ", "b">>
\* "xabcdex"
TxtLong == <<"x", "a", "b", "c", "d", "e", "x">>

TextPool == {TxtAbcd, TxtAbcde, TxtBcde, TxtPadded, TxtGap, TxtShort, TxtShortGap, TxtLong}

\* the lists of at most n texts of the pool
TextLists(n) == UNION {[1..k -> TextPool] : k \in 0..n}

\* a link text of n characters that scores on its discount: c ... c 5折
Discount(c, n) == Rep(c, n - 2) \o <<"5", "u6298">>

\* two short links, then fifteen longer ones, none contained in another: two
\* more than the extractor keeps
BwCrowded ==
    [NoPage EXCEPT
        !.anchors = <<Link(Discount("a", 6)), Link(Discount("b", 7))>>
                    \o [i \in 1..BwLimit |-> Link(Discount(UpperCase[i], 7 + i))]]

\* a snapshot whose BookWalker entry holds the first link of BwCrowded
SeenSnapshot ==
    [OldSnapshot EXCEPT !.items = <<OldItem("BookWalker", <<Discount("a", 6)>>)>>]

BwPages == {BwPage, BwCrowded, ChallengePage, NoPage}
BwFiles == {NoFile, CorruptFile, OldSnapshot, SeenSnapshot}

\* a campaign whose name is a number
RmBadField ==
    [RmPage EXCEPT !.campaigns = Campaigns(<<JObj(JNum(7), JStr(SpringSale), JAbsent, JAbsent)>>)]
RmMalformed == [RmPage EXCEPT !.campaigns = MalformedCampaigns]
\* the marker without the assignment
RmNoLiteral == [RmPage EXCEPT !.campaigns = NoCampaigns]
JavascriptPage == [RmPage EXCEPT !.javascript = TRUE]

ReadmooPages ==
    {RmPage, RmBadElement, RmBadField, RmMalformed, RmNoLiteral, JavascriptPage,
     ChallengePage, ChallengeWithCampaigns, NoPage}

InitFn ==
    /\ file = NoFile
    /\ web = SteadyWeb
    /\ runsLeft = 0
    /\ pc = "idle"
    /\ idx = 1
    /\ prev_ver = NoVersion
    /\ prev_sig = [p \in Platforms |-> <<>>]
    /\ items = <<>>
    /\ changed_platforms = <<>>
    /\ html = Unbound
    /\ fetched = <<>>
    /\ lastRun = NoRun
    /\ call = NoCall

pipeline == <<file, pc, idx, prev_ver, prev_sig, items, changed_platforms, html,
              web, runsLeft, fetched, lastRun>>

CallPickUniqueTexts ==
    /\ call.fn = "none"
    /\ \E texts \in TextLists(MaxTexts) : \E limit \in 0..MaxLimit :
       \E r \in pick_unique_texts(texts, limit) :
           call' = [NoCall EXCEPT !.fn = "pick_unique_texts", !.texts = texts,
                                  !.limit = limit, !.result = r]
    /\ UNCHANGED pipeline

CallExtractReadmoo ==
    /\ call.fn = "none"
    /\ \E page \in ReadmooPages :
           call' = [NoCall EXCEPT !.fn = "extract_readmoo_cards", !.page = page,
                                  !.raised = ~extract_readmoo_cards(page).ok,
                                  !.result = extract_readmoo_cards(page).cards]
    /\ UNCHANGED pipeline

CallExtractBw ==
    /\ call.fn = "none"
    /\ \E page \in BwPages : \E f \in BwFiles : \E r \in extract_bw_cards(page, f) :
           call' = [NoCall EXCEPT !.fn = "extract_bw_cards", !.page = page, !.prev = f,
                                  !.result = r]
    /\ UNCHANGED pipeline

NextFn == CallPickUniqueTexts \/ CallExtractReadmoo \/ CallExtractBw

SpecFn == InitFn /\ [][NextFn]_vars

(***************************************************************************)
(* The claims                                                              *)
(***************************************************************************)
Current == Version(PARSER_VERSION)

\* the platforms of a list of entries, in order
PlatformsOf(entries) == [k \in 1..Len(entries) |-> entries[k].platform]

\* the previous snapshot holds a fingerprint for an entry's platform, and it
\* is not the entry's
HeldFingerprintDiffers(e) ==
    \E k \in 1..Len(file.items) :
        /\ file.items[k].platform = e.platform
        /\ file.items[k].signature # <<>>
        /\ file.items[k].signature # e.signature

\* the positions where two card lists differ
DiffPositions(a, b) == {i \in 1..Min(Len(a), Len(b)) : a[i] # b[i]}

\* the run in progress follows a completed run, and the k-th platform has
\* the status, title and error it had then and all its cards but one
OneCardDiffers(k) ==
    /\ pc = "loop" /\ lastRun.completed /\ k <= Len(items)
    /\ lastRun.fetched[k].status = fetched[k].status
    /\ lastRun.fetched[k].title = fetched[k].title
    /\ lastRun.fetched[k].error = fetched[k].error
    /\ Len(lastRun.fetched[k].card_titles) = Len(fetched[k].card_titles)
    /\ Cardinality(DiffPositions(lastRun.fetched[k].card_titles, fetched[k].card_titles)) = 1

\* the k-th platform has the status, title, cards and error of the last run
SameInputs(k) ==
    /\ pc = "loop" /\ lastRun.completed /\ k <= Len(items)
    /\ lastRun.fetched[k].status = fetched[k].status
    /\ lastRun.fetched[k].title = fetched[k].title
    /\ lastRun.fetched[k].error = fetched[k].error
    /\ lastRun.fetched[k].card_titles = fetched[k].card_titles

Reported(k) ==
    /\ items[k].signature # file.items[k].signature
    /\ items[k].platform \in Range(changed_platforms)

\* the cap of a platform's card list; 15 where the source sets none
Cap(platform) ==
    CASE platform = "HyRead" -> HyreadLimit
      [] platform = "Pubu"   -> PubuLimit
      [] platform = "Books"  -> BooksLimit
      [] OTHER               -> BwLimit

\* no two distinct cards where one is a substring of the other
NoContainment(cards) ==
    \A i \in 1..Len(cards) : \A j \in 1..Len(cards) :
        cards[i] # cards[j] => ~Contains(cards[i], cards[j])

CardsBounded(e) ==
    /\ Len(e.card_titles) <= Cap(e.platform)
    /\ NoContainment(e.card_titles)

\* C1: whatever the fetches of a run give, main() ends without an uncaught
\* exception and writes a snapshot with exactly one entry per configured
\* platform, in the configured order.
C1_EveryRunCompletes ==
    /\ pc # "crashed"
    /\ (pc = "idle" /\ lastRun.completed) =>
           file.state = "ok" /\ PlatformsOf(file.items) = PlatformsOf(URLS)

\* C2: a run that fetches for every platform exactly what the run before it
\* fetched, and reads the snapshot that run wrote, reports no change:
\* has_new_changes is negative and changed_platforms is empty.
C2_RepeatedRunReportsNothing ==
    (pc = "idle" /\ lastRun.completed /\ lastRun.repeat) =>
        file.has_new_changes = No /\ file.changed_platforms = <<>>

\* C3: in a run, a processed platform is in changed_platforms exactly when
\* the previous snapshot has the current parser version and holds a
\* fingerprint for the platform that differs from the one of this run; so a
\* run over a missing, corrupt or older-version snapshot reports nothing, and
\* the snapshot a run writes carries the current version, which ends the
\* suppression with that run.
C3_ChangedExactlyWhen ==
    /\ pc \in {"loop", "crashed"} =>
        /\ \A j \in 1..Len(items) :
               items[j].platform \in Range(changed_platforms)
               <=> /\ file.state = "ok"
                   /\ file.parser_version = Current
                   /\ HeldFingerprintDiffers(items[j])
        /\ (file.state # "ok" \/ file.parser_version # Current) => changed_platforms = <<>>
    /\ lastRun.completed => file.state = "ok" /\ file.parser_version = Current

\* C3's case: a run at the current version has reported Books and not HyRead
C3_Witness ==
    /\ pc = "loop" /\ idx = Len(URLS) + 1
    /\ file.parser_version = Current
    /\ "Books" \in Range(changed_platforms)
    /\ "HyRead" \notin Range(changed_platforms)

\* C4 as stated: when one card of a platform differs from the last run, at
\* any position of the card list, and status, title and error are the same,
\* the fingerprint differs and the platform is reported; a platform with
\* unchanged inputs is not.
C4_AnyCardChangeReported ==
    \A k \in 1..Len(items) :
        /\ OneCardDiffers(k) => Reported(k)
        /\ SameInputs(k) => items[k].platform \notin Range(changed_platforms)

\* C4 amended: when one card among the first 8 of a platform differs from
\* the last run and status, title and error are the same, the fingerprint
\* differs and the platform is reported; a platform with unchanged inputs is
\* not.
C4_FingerprintedCardChangeReported ==
    \A k \in 1..Len(items) :
        /\ ( /\ OneCardDiffers(k)
             /\ DiffPositions(lastRun.fetched[k].card_titles, fetched[k].card_titles)
                    \subseteq 1..SigCards )
           => Reported(k)
        /\ SameInputs(k) => items[k].platform \notin Range(changed_platforms)

\* C4's case: the first card of Books differs from the last run and Books is
\* reported, while HyRead, unchanged, is not
C4_Witness ==
    /\ pc = "loop" /\ idx = Len(URLS) + 1
    /\ OneCardDiffers(Len(URLS))
    /\ DiffPositions(lastRun.fetched[Len(URLS)].card_titles,
                     fetched[Len(URLS)].card_titles) = {1}
    /\ "Books" \in Range(changed_platforms)
    /\ SameInputs(3)
    /\ "HyRead" \notin Range(changed_platforms)

\* C5: the entry of a platform whose fetch raised is the entry of an empty
\* page: its error is the failure's message, and outside Readmoo and Books it
\* is blocked as suspected anti-bot, whatever an earlier platform fetched.
C5_FailedFetchIsEmptyPage ==
    \A k \in 1..Len(items) :
        fetched[k].outcome.kind # "ok" =>
            /\ items[k].error = fetched[k].outcome.error
            /\ items[k].platform \notin {"Readmoo", "Books"} =>
                   items[k].blocked /\ items[k].blocked_reason = SuspectedReason

\* C6 as stated: in a persisted snapshot every entry, Readmoo's included, has
\* at most its cap of cards and no two distinct cards of which one is a
\* substring of the other.
C6_EveryCardListBounded ==
    file.state = "ok" => \A k \in 1..Len(file.items) : CardsBounded(file.items[k])

\* C6 amended: in a persisted snapshot every entry but Readmoo's has at most
\* its cap of cards and no two distinct cards of which one is a substring of
\* the other.
C6_SelectedCardListsBounded ==
    file.state = "ok" =>
        \A k \in 1..Len(file.items) :
            file.items[k].platform # "Readmoo" => CardsBounded(file.items[k])

\* C6's case: a snapshot of a run whose Books list was cut to its cap and
\* whose BookWalker list lost the link contained in another
C6_Witness ==
    /\ pc = "idle" /\ lastRun.completed
    /\ Len(file.items[Len(URLS)].card_titles) = BooksLimit
    /\ Len(BooksCandidates(lastRun.fetched[Len(URLS)].outcome.page)) > BooksLimit
    /\ Len(file.items[1].card_titles) >= 2
    /\ Normalize(BwContained) \in Range(BwCandidates(lastRun.fetched[1].outcome.page))
    /\ Normalize(BwContained) \notin Range(file.items[1].card_titles)

\* C7: an entry whose fetched HTML contains "verify that you're not a robot"
\* is blocked, with a reason.
C7_ChallengePageIsBlocked ==
    \A k \in 1..Len(items) :
        (fetched[k].outcome.kind = "ok" /\ fetched[k].outcome.page.robot) =>
            items[k].blocked /\ items[k].blocked_reason # <<>>

\* the normalized inputs of at least 4 characters
CleanedSet(texts) ==
    {t \in {Normalize(texts[i]) : i \in 1..Len(texts)} : Len(t) >= MinTextLen}

\* C8: pick_unique_texts returns no text twice, no text that is a substring
\* of another returned text, at most limit texts, and a subsequence of a
\* length-descending ordering of the normalized, deduplicated inputs of at
\* least 4 characters.
C8_PickUniqueTexts ==
    call.fn = "pick_unique_texts" =>
        LET r == call.result
        IN  /\ \A i \in 1..Len(r) : \A j \in 1..Len(r) :
                   i # j => r[i] # r[j] /\ ~Contains(r[i], r[j])
            /\ Len(r) <= call.limit
            /\ \A i \in 1..Len(r) : r[i] \in CleanedSet(call.texts)
            /\ \A i \in 1..Len(r) : \A j \in 1..Len(r) : i < j => Len(r[i]) >= Len(r[j])

\* C8's case: a call that dropped a contained text and filled its limit
C8_Witness ==
    /\ call.fn = "pick_unique_texts"
    /\ call.limit >= 2
    /\ Len(call.result) = call.limit
    /\ \E t \in CleanedSet(call.texts) :
           /\ t \notin Range(call.result)
           /\ \E j \in 1..Len(call.result) : Contains(call.result[j], t)

\* C9: extract_readmoo_cards returns a card list for every page and never
\* raises.
C9_ReadmooNeverRaises == call.fn = "extract_readmoo_cards" => ~call.raised

\* C10: the first two positively scored candidates that the previous
\* snapshot's BookWalker cards do not hold are in the list extract_bw_cards
\* returns.
C10_NewItemsReturned ==
    call.fn = "extract_bw_cards" =>
        Range(GuaranteedNewItems(call.page, call.prev)) \subseteq Range(call.result)

\* the fingerprint of an entry's stored status, title, cards and error
SignatureOfStored(e) ==
    make_signature(e.page_title, e.card_titles, e.http_status, e.error)

\* C11: in every snapshot a run has written, every entry's signature is the
\* fingerprint of that entry's own stored http_status, page_title,
\* card_titles and error.
C11_SignatureIsOfStoredFields ==
    (pc = "idle" /\ lastRun.completed) =>
        \A k \in 1..Len(file.items) :
            file.items[k].signature = SignatureOfStored(file.items[k])

====
